---- MODULE Spec2Model ----
(***************************************************************************)
(* The Yalla chat service (services/yallaChat.js): one run of chat(), the  *)
(* request / tool / response loop against the language model, with the     *)
(* five tool executors.  One action is one atomic segment of the async     *)
(* function: the code that runs between two awaits.                        *)
(***************************************************************************)
EXTENDS Integers, Sequences, FiniteSets, TLC

VARIABLES
    pc,          \* where chat() is: "start", "model" (awaiting sendMessage),
                 \* "exec" (awaiting executor(args)), "done" (returned)
    response,    \* let response: the last value sendMessage resolved with
    iterations,  \* let iterations
    toolsUsed,   \* const toolsUsed = []
    call,        \* { name, args } of the executor call being awaited
    sent,        \* the argument of the last chatSession.sendMessage call
    nSent,       \* number of chatSession.sendMessage calls made
    nExec,       \* number of executor(args) invocations made
    nTurns,      \* number of model turns received
    upstream,    \* what the upstream services did during the last executor call
    outcome,     \* the object chat() returned
    requested,   \* the tool name asked for by each model turn received, in order
    inFlight     \* the outbound operations issued and not yet settled

\* One run of toolExecutors.get_departure_times
VARIABLES
    dpc,         \* "off", "call", "await" (a route request is awaited), "done"
    dArgs,       \* the argument object it was called with
    dIdx,        \* index into offsets of the loop variable offset
    results,     \* const results = []
    dAnswers,    \* what the route service answered for each offset requested
    dRequests,   \* the offsets a route request was made for, in the order made
    dReturn      \* what the executor's promise settled with

\* One call of a single-request executor on one upstream answer
VARIABLES
    tIn,         \* the tool and the upstream response.data it gets
    tOut         \* the value the executor resolved with

\* One POST /api/chat request
VARIABLES
    body,        \* req.body
    res,         \* the response sent by the handler
    chatCall     \* the arguments chat() was called with, and its session history

\* A second chat session whose awaits interleave with the running one
VARIABLE parked

\* The wall clock (new Date()), in seconds
VARIABLE clock

\* POST /api/vibes requests of one userId
VARIABLES
    rateLimit,     \* the userId's row of vibeRateLimit
    vpc,           \* where each request being handled is
    vLast,         \* when the last vibe of the userId was created
    vPrev,         \* when the one before it was created
    vWindowStart,  \* the creation time that opens the 24 hours being counted
    vWindowCount   \* the vibes created in those 24 hours

chatVars == <<pc, response, iterations, toolsUsed, call, sent, nSent, nExec, nTurns,
              upstream, outcome, requested, inFlight>>
depVars == <<dpc, dArgs, dIdx, results, dAnswers, dRequests, dReturn>>
toolVars == <<tIn, tOut>>
routeVars == <<body, res, chatCall>>

\* POST /api/incidents/:id/vote requests on one incident
VARIABLES
    incidentVotes,  \* the IncidentVote rows of the incident
    confirmations,  \* Incident.confirmations
    denials,        \* Incident.denials
    isActive,       \* Incident.isActive
    voteReq         \* the requests: voter, voteType, position, existingVote

\* getOrFetch calls on the 'traffic' cache (utils/cache.js)
VARIABLES
    cacheData,     \* the entries of caches.traffic, by key
    fetchCalls,    \* the getOrFetch calls: cacheType, key, position, settlement
    nFetch         \* how many times a fetchFn has been called

vibeVars == <<rateLimit, vpc, vLast, vPrev, vWindowStart, vWindowCount>>
voteVars == <<incidentVotes, confirmations, denials, isActive, voteReq>>
cacheVars == <<cacheData, fetchCalls, nFetch>>
sideVars == <<clock, vibeVars, voteVars, cacheVars>>

vars == <<chatVars, depVars, toolVars, routeVars, parked, sideVars>>

-----------------------------------------------------------------------------
(* Program constants *)

maxIterations == 5

FRIENDLY_ERROR == "Oops! I had trouble processing that. Could you try rephrasing your question?"

\* The names declared to the model, which are the own keys of toolExecutors.
TRAFFIC_TOOLS ==
    {"search_place", "calculate_routes", "get_traffic_flow",
     "get_departure_times", "get_incidents"}

\* offsets = [0, 30, 60, 120] of get_departure_times
offsets == <<0, 30, 60, 120>>

-----------------------------------------------------------------------------
(* The environment: what the language model and the upstream services do *)

\* travelTimeInSeconds of the routes the route service returns: 34.5, 35,
\* 40, 45 and 50 minutes, so that durations tie after rounding.
TravelTimes == {2070, 2100, 2400, 2700, 3000}

\* Tool names the modelled language model may put in a functionCall: three
\* registered ones (a single lookup, the four-request comparison, and the
\* one whose empty result is a success), a name that is no property of
\* toolExecutors at all, and two names every object literal inherits from
\* Object.prototype.
RequestedNames ==
    {"search_place", "get_departure_times", "get_incidents",
     "book_taxi", "constructor", "__proto__"}

\* functionCall.args: an object with every required field, an object with
\* required fields missing, or no args object at all (undefined).
ArgValues == {"complete", "missing", "undefined"}

\* What an upstream collaborator does with one request: answers with data,
\* answers with nothing in it, or fails (HTTP error, or the 10 s timeout).
UpstreamBehaviours == {"ok", "empty", "error"}

UPSTREAM_ERROR == "External service unavailable"

\* error.message of a rejected sendMessage
ModelErrors == {"fetch failed", "quota exceeded"}

TextPart(t) == [text |-> t]
CallPart(n, a) == [functionCall |-> [name |-> n, args |-> a]]

Texts == {"", "On my way. "}
CallParts == {CallPart(n, a) : n \in RequestedNames, a \in ArgValues}

\* response.response: no candidate, a candidate without content (a blocked
\* answer), or a candidate whose content.parts is one of these lists.
PartLists ==
    {<<>>}
    \cup {<<TextPart(t)>> : t \in Texts}
    \cup {<<TextPart("On my way. "), TextPart("Traffic is clear.")>>}
    \cup {<<c>> : c \in CallParts}
    \cup {<<TextPart("On my way. "), c>> : c \in CallParts}
    \cup {<<CallPart("search_place", "complete"), CallPart("get_incidents", "complete")>>}

NoCandidate == [candidates |-> <<>>]
NoContent == [candidates |-> <<[finishReason |-> "SAFETY"]>>]
Turn(parts) == [candidates |-> <<[content |-> [parts |-> parts]]>>]

Turns == {NoCandidate, NoContent} \cup {Turn(ps) : ps \in PartLists}

ConcurrentTurns ==
    {Turn(<<TextPart("On my way. ")>>),
     Turn(<<CallPart("search_place", "complete")>>),
     Turn(<<CallPart("get_incidents", "complete")>>)}

NoResponse == [candidates |-> <<>>, pending |-> TRUE]
NoCall == [name |-> "", args |-> "undefined"]
NoMessage == [nothing |-> TRUE]
NoOutcome == [pending |-> TRUE]

-----------------------------------------------------------------------------
(* toolExecutors: what awaiting executor(args) settles with *)

Resolved(v) == [settled |-> "resolved", value |-> v]
Rejected(e) == [settled |-> "rejected", error |-> e]

\* The parameter is a destructuring pattern, bound before the body's try
\* block is entered: with args undefined the async function rejects.
DESTRUCTURE_ERROR == "Cannot destructure property of 'undefined'"
NOT_A_FUNCTION == "executor is not a function"
NO_PARTS == "Cannot read properties of undefined (reading 'parts')"

\* The catch block lets the upstream error escape.
search_place_Rethrows(args, up) ==
    IF args = "undefined" THEN Rejected(DESTRUCTURE_ERROR)
    ELSE IF up = "error" THEN Rejected(UPSTREAM_ERROR)
    ELSE IF up = "empty" THEN Resolved([error |-> "No places found", query |-> args])
    ELSE Resolved([places |-> "top 3", query |-> args])

search_place(args, up) ==
    IF args = "undefined" THEN Rejected(DESTRUCTURE_ERROR)
    ELSE IF up = "error" THEN Resolved([error |-> UPSTREAM_ERROR, query |-> args])
    ELSE IF up = "empty" THEN Resolved([error |-> "No places found", query |-> args])
    ELSE Resolved([places |-> "top 3", query |-> args])

\* What one upstream request comes back with: a rejection (HTTP error or
\* timeout), or response.data.
Failed == [kind |-> "error"]
Data(d) == [kind |-> "data", data |-> d]

\* The thresholds compared the other way round at the boundary.
Condition_BoundaryHarsher(currentSpeed, freeFlowSpeed) ==
    IF 10 * currentSpeed <= 3 * freeFlowSpeed THEN "severe"
    ELSE IF 10 * currentSpeed <= 5 * freeFlowSpeed THEN "heavy"
    ELSE IF 10 * currentSpeed <= 7 * freeFlowSpeed THEN "moderate"
    ELSE IF 10 * currentSpeed <= 9 * freeFlowSpeed THEN "light"
    ELSE "clear"

\* currentSpeed < freeFlowSpeed * 0.3, ... * 0.5, * 0.7, * 0.9, for the whole
\* km/h values the flow service reports.  The products are doubles; for
\* whole speeds up to 2000 km/h each of the four comparisons has the same
\* result as the exact comparison in tenths made here.
Condition(currentSpeed, freeFlowSpeed) ==
    IF 10 * currentSpeed < 3 * freeFlowSpeed THEN "severe"
    ELSE IF 10 * currentSpeed < 5 * freeFlowSpeed THEN "heavy"
    ELSE IF 10 * currentSpeed < 7 * freeFlowSpeed THEN "moderate"
    ELSE IF 10 * currentSpeed < 9 * freeFlowSpeed THEN "light"
    ELSE "clear"

\* The body of get_traffic_flow after its await, on response.data.
FlowReturn(data) ==
    IF "flowSegmentData" \notin DOMAIN data
    THEN [error |-> "Could not get traffic flow"]
    ELSE LET flow == data.flowSegmentData
         IN  [currentSpeedKmh |-> flow.currentSpeed,
              freeFlowSpeedKmh |-> flow.freeFlowSpeed,
              condition |-> Condition(flow.currentSpeed, flow.freeFlowSpeed),
              roadClosed |-> IF "roadClosure" \in DOMAIN flow THEN flow.roadClosure ELSE FALSE]

get_traffic_flow(args, up) ==
    IF args = "undefined" THEN Rejected(DESTRUCTURE_ERROR)
    ELSE IF up = "error" THEN Resolved([error |-> UPSTREAM_ERROR])
    ELSE IF up = "empty" THEN Resolved(FlowReturn([other |-> TRUE]))
    ELSE Resolved(FlowReturn([flowSegmentData |-> [currentSpeed |-> 20, freeFlowSpeed |-> 80]]))

\* Math.round(n / d) for whole n >= 0 and d > 0: halves round up.
MathRound(n, d) == (2 * n + d) \div (2 * d)

\* offset === 0 ? 'Now' : `+${offset} min`, as the pieces of the string
Label(offset) == IF offset = 0 THEN <<"Now">> ELSE <<"+", ToString(offset), " min">>

\* label.replace('+', ''): the first '+' is taken out
RECURSIVE ReplacePlus(_)
ReplacePlus(label) ==
    IF label = <<>> THEN <<>>
    ELSE IF Head(label) = "+" THEN Tail(label)
    ELSE <<Head(label)>> \o ReplacePlus(Tail(label))

\* const route = response.data.routes?.[0]; if (route): whether the answer
\* to one route request adds an entry to results.  A rejected request and
\* a route without a summary both end in the inner catch.
HasRoute(answer) ==
    /\ answer.kind = "data"
    /\ "routes" \in DOMAIN answer.data
    /\ answer.data.routes # <<>>
    /\ "summary" \in DOMAIN answer.data.routes[1]

\* The entry pushed for one offset (departureTime and trafficDelayMinutes,
\* which nothing below reads, are left out).
Entry(offset, answer) ==
    [label |-> Label(offset),
     durationMinutes |-> MathRound(answer.data.routes[1].summary.travelTimeInSeconds, 60)]

\* r.durationMinutes < min.durationMinutes
Shorter(r, min) == r.durationMinutes < min.durationMinutes

\* results.reduce((min, r) => ... ? r : min, results[0])
RECURSIVE Reduce(_, _)
Reduce(min, rest) ==
    IF rest = <<>> THEN min
    ELSE Reduce(IF Shorter(Head(rest), min) THEN Head(rest) ELSE min, Tail(rest))

\* Every entry as short as the best one is marked.
IsBest_ByDuration(r, best) == r.durationMinutes = best.durationMinutes

\* r.isBest = r.label === best.label
IsBest(r, best) == r.label = best.label

\* The empty list is returned as a success.
NoDepartureTimes_EmptySuccess ==
    [departureTimes |-> <<>>, recommendation |-> <<"Now is the best time to leave!">>]

\* The return inside if (results.length === 0)
NoDepartureTimes == [error |-> "Could not calculate departure times"]

\* The body of get_departure_times after its loop.
DepartureReturn(rs) ==
    IF Len(rs) = 0
    THEN NoDepartureTimes
    ELSE LET best == Reduce(rs[1], rs)
             timeSaved == rs[1].durationMinutes - best.durationMinutes
         IN  [departureTimes |->
                  [i \in 1..Len(rs) |->
                      [label |-> rs[i].label,
                       durationMinutes |-> rs[i].durationMinutes,
                       isBest |-> IsBest(rs[i], best)]],
              recommendation |->
                  IF best.label = <<"Now">>
                  THEN <<"Now is the best time to leave!">>
                  ELSE <<"Wait ">> \o ReplacePlus(best.label)
                       \o <<" to save ", ToString(timeSaved), " minutes">>]

\* The new entry is put in front.
push_Front(array, element) == <<element>> \o array

\* results.push(element)
push(array, element) == Append(array, element)

\* The entries the loop has collected from the answers to its first i requests.
RECURSIVE Collect(_, _)
Collect(i, answers) ==
    IF i = 0 THEN <<>>
    ELSE IF HasRoute(answers[i])
    THEN push(Collect(i - 1, answers), Entry(offsets[i], answers[i]))
    ELSE Collect(i - 1, answers)

\* answers[i] is what the route service answers to the request for offsets[i].
get_departure_times(args, answers) ==
    IF args = "undefined" THEN Rejected(DESTRUCTURE_ERROR)
    ELSE Resolved(DepartureReturn(Collect(Len(offsets), answers)))

\* One route of a calculateRoute response
Route(seconds) == [summary |-> [travelTimeInSeconds |-> seconds]]

\* The body of calculate_routes after its await, on response.data: every
\* route of the response is formatted (distanceKm, trafficDelayMinutes and
\* arrivalTime, which nothing below reads, are left out).
RoutesReturn(data) ==
    IF "routes" \notin DOMAIN data \/ data.routes = <<>>
    THEN [error |-> "No routes found"]
    ELSE IF \E i \in 1..Len(data.routes) : "summary" \notin DOMAIN data.routes[i]
    THEN \* r.summary.travelTimeInSeconds throws inside map: the catch block
         [error |-> "Cannot read properties of undefined (reading 'travelTimeInSeconds')"]
    ELSE [routes |-> [i \in 1..Len(data.routes) |->
                         [routeNumber |-> i,
                          durationMinutes |->
                              MathRound(data.routes[i].summary.travelTimeInSeconds, 60)]]]

calculate_routes(args, up) ==
    IF args = "undefined" THEN Rejected(DESTRUCTURE_ERROR)
    ELSE IF up = "error" THEN Resolved([error |-> UPSTREAM_ERROR])
    ELSE IF up = "empty" THEN Resolved(RoutesReturn([routes |-> <<>>]))
    ELSE Resolved(RoutesReturn([routes |-> <<Route(2400), Route(2700)>>]))

\* The route service's answer at the level of detail of a chat session.
RouteAnswer(up) ==
    IF up = "error" THEN Failed
    ELSE IF up = "empty" THEN Data([routes |-> <<>>])
    ELSE Data([routes |-> <<Route(2400)>>])

getMagnitudeLabel(magnitude) ==
    CASE magnitude = 1 -> "Minor"
      [] magnitude = 2 -> "Moderate"
      [] magnitude = 3 -> "Major"
      [] magnitude = 4 -> "Severe"
      [] OTHER -> "Unknown"

\* One entry of formattedIncidents (only its severity is modelled).
FormatIncident(inc) ==
    [severity |-> IF "properties" \in DOMAIN inc
                       /\ "magnitudeOfDelay" \in DOMAIN inc.properties
                  THEN getMagnitudeLabel(inc.properties.magnitudeOfDelay)
                  ELSE "Unknown"]

\* Any empty list is reported as an error.
ClearRoads_AsError(data) == [error |-> "No incidents found"]

\* The return inside if (incidents.length === 0)
ClearRoads(data) ==
    [incidents |-> <<>>, message |-> "No incidents reported in this area - roads are clear!"]

\* Every incident is passed on.
firstIncidents_All(incidents) == incidents

\* incidents.slice(0, 5)
firstIncidents(incidents) ==
    SubSeq(incidents, 1, IF Len(incidents) < 5 THEN Len(incidents) ELSE 5)

\* The body of get_incidents after its await, on response.data.
IncidentsReturn(data) ==
    LET incidents == IF "incidents" \in DOMAIN data THEN data.incidents ELSE <<>>
    IN  IF Len(incidents) = 0
        THEN ClearRoads(data)
        ELSE [incidents |-> [i \in 1..Len(firstIncidents(incidents)) |->
                                FormatIncident(firstIncidents(incidents)[i])],
              totalCount |-> Len(incidents)]

get_incidents(args, up) ==
    IF args = "undefined" THEN Rejected(DESTRUCTURE_ERROR)
    ELSE IF up = "error" THEN Resolved([error |-> UPSTREAM_ERROR])
    ELSE IF up = "empty" THEN Resolved(IncidentsReturn([incidents |-> <<>>]))
    ELSE Resolved(IncidentsReturn([incidents |-> <<[properties |-> [magnitudeOfDelay |-> 3]]>>]))

\* toolExecutors[name]: an own async function, a function or an object
\* inherited from Object.prototype, or undefined.
ExecutorKind(name) ==
    IF name \in TRAFFIC_TOOLS THEN "tool"
    ELSE IF name = "constructor" THEN "inherited function"
    ELSE IF name = "__proto__" THEN "inherited object"
    ELSE "undefined"

\* await executor(args), for an executor that is callable.
ExecutorSettles(name, args, up) ==
    CASE name = "search_place" -> search_place(args, up)
      [] name = "calculate_routes" -> calculate_routes(args, up)
      [] name = "get_traffic_flow" -> get_traffic_flow(args, up)
      [] name = "get_departure_times" ->
            get_departure_times(args, [i \in 1..Len(offsets) |-> RouteAnswer(up)])
      [] name = "get_incidents" -> get_incidents(args, up)
      [] OTHER -> Resolved([object |-> args])   \* Object(args)

\* Whether executor(args) gets as far as its upstream request.
UpstreamCalled(name, args) == name \in TRAFFIC_TOOLS /\ args # "undefined"

IsFailure(result) == "error" \in DOMAIN result

-----------------------------------------------------------------------------
(* chat(message, context) *)

\* candidate.content.parts.find(p => p.functionCall): the index of the first
\* part carrying a functionCall, 0 when there is none.
FindFunctionCall(parts) ==
    LET found == {i \in 1..Len(parts) : "functionCall" \in DOMAIN parts[i]}
    IN  IF found = {} THEN 0 ELSE CHOOSE i \in found : \A j \in found : i <= j

\* parts.filter(p => p.text).map(p => p.text).join('')
RECURSIVE JoinText(_)
JoinText(parts) ==
    IF parts = <<>> THEN ""
    ELSE LET p == Head(parts)
         IN  IF "text" \in DOMAIN p /\ p.text # ""
             THEN p.text \o JoinText(Tail(parts))
             ELSE JoinText(Tail(parts))

\* The bound checked one iteration too late.
LoopCondition_OffByOne(i) == i <= maxIterations

\* while (iterations < maxIterations)
LoopCondition(i) == i < maxIterations

\* The counter is never advanced.
NextIteration_NotCounted(i) == i

\* iterations++
NextIteration(i) == i + 1

\* if (executor): undefined is the only falsy value toolExecutors[name] takes
ExecutorFound(name) == ExecutorKind(name) # "undefined"

\* The object returned after the loop.
SuccessOutcome(text, tools) ==
    [success |-> TRUE, message |-> text, toolsUsed |-> tools]

\* The object returned by the catch block.
FailureOutcome(e) ==
    [success |-> FALSE, message |-> FRIENDLY_ERROR, error |-> e]

Return(o) ==
    /\ pc' = "done"
    /\ outcome' = o

\* Every functionCall part of the turn is executed.
Invocations_EveryRequest(parts) ==
    Cardinality({i \in 1..Len(parts) : "functionCall" \in DOMAIN parts[i]})

\* The executor(args) calls one pass of the loop makes for a turn with a
\* tool request: parts.find returns the first functionCall part only.
Invocations(parts) == 1

\* A name already in the list is not recorded again.
RecordTool_Deduplicated(tools, name) ==
    IF \E i \in 1..Len(tools) : tools[i] = name THEN tools ELSE Append(tools, name)

\* toolsUsed.push(name)
RecordTool(tools, name) == Append(tools, name)

\* An outbound call is made, and the await on it resumes.
Issue(ops, op) == ops \cup {op}
Settle(ops, op) == ops \ {op}

\* The tool name a model turn asks for: that of its first functionCall part.
ToolRequest(r) ==
    IF r.candidates # <<>> /\ "content" \in DOMAIN r.candidates[1]
          /\ FindFunctionCall(r.candidates[1].content.parts) # 0
    THEN LET parts == r.candidates[1].content.parts
         IN  <<parts[FindFunctionCall(parts)].functionCall.name>>
    ELSE <<>>

\* The turns the modelled language model may answer with: all of Turns for a
\* session running alone, a few of them when two sessions interleave.
ModelTurns == IF "pc" \in DOMAIN parked THEN ConcurrentTurns ELSE Turns

\* What the upstream services may do during an executor call, likewise.
ModelUpstreams == IF "pc" \in DOMAIN parked THEN {"ok"} ELSE UpstreamBehaviours

\* chat() is called: the session is built and the first message is sent.
Start ==
    /\ pc = "start"
    /\ pc' = "model"
    /\ sent' = [text |-> "enrichedMessage"]
    /\ nSent' = 1
    /\ inFlight' = Issue(inFlight, "sendMessage")
    /\ UNCHANGED <<response, iterations, toolsUsed, call, nExec, nTurns, upstream, outcome,
                   requested>>
    /\ UNCHANGED <<depVars, toolVars, routeVars, parked, sideVars>>

\* await chatSession.sendMessage(...) rejects: the catch block returns.
SendMessageRejects ==
    /\ pc = "model"
    /\ \E e \in ModelErrors : Return(FailureOutcome(e))
    /\ inFlight' = Settle(inFlight, "sendMessage")
    /\ UNCHANGED <<response, iterations, toolsUsed, call, sent, nSent, nExec, nTurns, upstream,
                   requested>>
    /\ UNCHANGED <<depVars, toolVars, routeVars, parked, sideVars>>

\* One pass of the while loop over the turn r just received, up to its next
\* await or to the return.
LoopPass(r) ==
    IF ~LoopCondition(iterations)
    THEN /\ Return(SuccessOutcome("", toolsUsed))
         /\ UNCHANGED <<iterations, toolsUsed, call, nExec>>
    ELSE
      /\ iterations' = NextIteration(iterations)
      /\ IF r.candidates = <<>>
         THEN \* no candidate: break
              /\ Return(SuccessOutcome("", toolsUsed))
              /\ UNCHANGED <<toolsUsed, call, nExec>>
         ELSE IF "content" \notin DOMAIN r.candidates[1]
         THEN \* candidate.content.parts throws a TypeError
              /\ Return(FailureOutcome(NO_PARTS))
              /\ UNCHANGED <<toolsUsed, call, nExec>>
         ELSE
           LET parts == r.candidates[1].content.parts
               at == FindFunctionCall(parts)
           IN  IF at # 0
               THEN LET fc == parts[at].functionCall
                    IN  /\ toolsUsed' = RecordTool(toolsUsed, fc.name)
                        /\ IF ~ExecutorFound(fc.name)
                           THEN \* unknown tool: break
                                /\ Return(SuccessOutcome("", toolsUsed'))
                                /\ UNCHANGED <<call, nExec>>
                           ELSE IF ExecutorKind(fc.name) = "inherited object"
                           THEN \* executor(args) throws a TypeError
                                /\ Return(FailureOutcome(NOT_A_FUNCTION))
                                /\ UNCHANGED <<call, nExec>>
                           ELSE /\ pc' = "exec"
                                /\ call' = fc
                                /\ nExec' = nExec + Invocations(parts)
                                /\ UNCHANGED outcome
               ELSE /\ Return(SuccessOutcome(JoinText(parts), toolsUsed))
                    /\ UNCHANGED <<toolsUsed, call, nExec>>

\* await chatSession.sendMessage(...) resolves with a model turn.
SendMessageResolves ==
    /\ pc = "model"
    /\ \E r \in ModelTurns :
         /\ response' = r
         /\ nTurns' = nTurns + 1
         /\ requested' = requested \o ToolRequest(r)
         /\ LoopPass(r)
    /\ inFlight' = IF pc' = "exec"
                   THEN Issue(Settle(inFlight, "sendMessage"), "executor")
                   ELSE Settle(inFlight, "sendMessage")
    /\ UNCHANGED <<sent, nSent, upstream>>
    /\ UNCHANGED <<depVars, toolVars, routeVars, parked, sideVars>>

\* await executor(args) settles: the result is sent back to the model, or the
\* rejection reaches the catch block.
ExecutorReturns ==
    /\ pc = "exec"
    /\ \E up \in ModelUpstreams :
         LET s == ExecutorSettles(call.name, call.args, up)
         IN  /\ upstream' = IF UpstreamCalled(call.name, call.args) THEN up ELSE upstream
             /\ IF s.settled = "resolved"
                THEN /\ sent' = [functionResponse |->
                                    [name |-> call.name, response |-> s.value]]
                     /\ nSent' = nSent + 1
                     /\ pc' = "model"
                     /\ UNCHANGED outcome
                ELSE /\ Return(FailureOutcome(s.error))
                     /\ UNCHANGED <<sent, nSent>>
    /\ call' = NoCall
    /\ inFlight' = IF pc' = "model"
                   THEN Issue(Settle(inFlight, "executor"), "sendMessage")
                   ELSE Settle(inFlight, "executor")
    /\ UNCHANGED <<response, iterations, toolsUsed, nExec, nTurns, requested>>
    /\ UNCHANGED <<depVars, toolVars, routeVars, parked, sideVars>>

-----------------------------------------------------------------------------
(* get_departure_times, one action per segment between two awaits *)

\* The answers the route service may give to one calculateRoute request: a
\* rejection, a response without routes, an empty route list, a route
\* without a summary, and a route with a travel time.
RouteAnswers ==
    {Failed, Data([other |-> TRUE]), Data([routes |-> <<>>]),
     Data([routes |-> <<[legs |-> <<>>]>>])}
    \cup {Data([routes |-> <<Route(t)>>]) : t \in TravelTimes}

\* The outbound request made for one offset
RequestOf(offset) == "calculateRoute " \o ToString(offset)

\* All four requests are started before any is awaited.
IssuedAt_AllAtOnce(i) == IF i = 1 THEN DOMAIN offsets ELSE {}

\* The indices of offsets whose request is started when the loop reaches
\* index i: the await inside the loop body holds the next iteration back
\* until the response is there.
IssuedAt(i) == {i}

\* The offsets of a set of indices, in ascending order
RECURSIVE OffsetsOf(_)
OffsetsOf(indices) ==
    IF indices = {} THEN <<>>
    ELSE LET i == CHOOSE x \in indices : \A y \in indices : x <= y
         IN  <<offsets[i]>> \o OffsetsOf(indices \ {i})

DepartureCall ==
    /\ dpc = "call"
    /\ IF dArgs = "undefined"
       THEN /\ dpc' = "done"
            /\ dReturn' = Rejected(DESTRUCTURE_ERROR)
            /\ UNCHANGED <<dIdx, inFlight, dRequests>>
       ELSE /\ dpc' = "await"
            /\ dIdx' = 1
            /\ inFlight' = inFlight \cup {RequestOf(offsets[k]) : k \in IssuedAt(1)}
            /\ dRequests' = dRequests \o OffsetsOf(IssuedAt(1))
            /\ UNCHANGED dReturn
    /\ UNCHANGED <<dArgs, results, dAnswers>>
    /\ UNCHANGED <<pc, response, iterations, toolsUsed, call, sent, nSent, nExec, nTurns,
                   upstream, outcome, requested>>
    /\ UNCHANGED <<toolVars, routeVars, parked, sideVars>>

DepartureAnswer ==
    /\ dpc = "await"
    /\ \E a \in RouteAnswers :
         /\ dAnswers' = Append(dAnswers, a)
         /\ results' = IF HasRoute(a) THEN push(results, Entry(offsets[dIdx], a))
                                      ELSE results
    /\ IF dIdx < Len(offsets)
       THEN /\ dIdx' = dIdx + 1
            /\ inFlight' = Settle(inFlight, RequestOf(offsets[dIdx]))
                               \cup {RequestOf(offsets[k]) : k \in IssuedAt(dIdx + 1)}
            /\ dRequests' = dRequests \o OffsetsOf(IssuedAt(dIdx + 1))
            /\ UNCHANGED <<dpc, dReturn>>
       ELSE /\ dpc' = "done"
            /\ dReturn' = Resolved(DepartureReturn(results'))
            /\ inFlight' = Settle(inFlight, RequestOf(offsets[dIdx]))
            /\ UNCHANGED <<dIdx, dRequests>>
    /\ UNCHANGED dArgs
    /\ UNCHANGED <<pc, response, iterations, toolsUsed, call, sent, nSent, nExec, nTurns,
                   upstream, outcome, requested>>
    /\ UNCHANGED <<toolVars, routeVars, parked, sideVars>>

-----------------------------------------------------------------------------
(* POST /api/chat (routes/chat.js) *)

\* The longest conversationHistory array a modelled request carries
MaxHistory == 12

\* The 10 of conversationHistory?.slice(-10)
historyLimit == 10

\* The 1000 of message.length > 1000
maxMessageLength == 1000

NODE_ENV == "production"

\* req.body.message: absent, not a string, or a string of a given length of
\* which trimmed characters remain after trim().
MessageValues ==
    {[type |-> "undefined"], [type |-> "number"]}
    \cup {[type |-> "string", length |-> m[1], trimmed |-> m[2]] :
            m \in {<<0, 0>>, <<3, 0>>, <<5, 5>>, <<1000, 1000>>, <<1001, 1001>>}}

\* One turn of a caller-supplied history
HistoryTurn(role) == [role |-> role]

\* req.body.conversationHistory: absent, null, the number 0, an object that
\* is no array, or an array of turns.
HistoryValues ==
    {[type |-> "undefined"], [type |-> "null"], [type |-> "number"], [type |-> "object"]}
    \cup {[type |-> "array", turns |-> h] :
            h \in UNION {[1..n -> {HistoryTurn("user"), HistoryTurn("model")}] :
                          n \in 0..MaxHistory}}

NoBody == [absent |-> TRUE]

Bodies ==
    {NoBody}
    \cup {[message |-> m, conversationHistory |-> h] : m \in MessageValues, h \in HistoryValues}

\* What chat() may resolve with, as far as the handler is concerned
ChatResults ==
    {SuccessOutcome("Hello", <<>>)} \cup {FailureOutcome(e) : e \in ModelErrors}

\* array.slice(start) for a start below zero
slice(array, start) ==
    LET from == IF Len(array) + start < 0 THEN 0 ELSE Len(array) + start
    IN  SubSeq(array, from + 1, Len(array))

\* The oldest turns are kept instead of the newest.
limitedHistory_Oldest(conversationHistory) ==
    IF conversationHistory.type \in {"undefined", "null"} THEN <<>>
    ELSE SubSeq(conversationHistory.turns, 1,
                IF Len(conversationHistory.turns) < historyLimit
                THEN Len(conversationHistory.turns) ELSE historyLimit)

\* conversationHistory?.slice(-10) || [], for a value that is absent, null
\* or an array
limitedHistory(conversationHistory) ==
    IF conversationHistory.type \in {"undefined", "null"} THEN <<>>
    ELSE slice(conversationHistory.turns, -historyLimit)

\* The history chat() starts its session with: the system prompt turn, the
\* greeting turn, then the history it was given.
StartChatHistory(conversationHistory) ==
    <<[role |-> "user", system |-> TRUE], [role |-> "model", system |-> TRUE]>>
    \o conversationHistory

BadRequest(error) == [status |-> 400, body |-> [success |-> FALSE, error |-> error]]

\* The response of the handler's catch block
ServerError(e) ==
    [status |-> 500,
     body |-> IF NODE_ENV = "development"
              THEN [success |-> FALSE,
                    message |-> "Sorry, I'm having trouble right now. Please try again in a moment!",
                    error |-> e]
              ELSE [success |-> FALSE,
                    message |-> "Sorry, I'm having trouble right now. Please try again in a moment!"]]

\* res.json(result)
RouteJson(result) == [status |-> 200, body |-> result]

\* !message || typeof message !== 'string' || message.trim().length === 0
MessageMissing(message) == message.type # "string" \/ message.trimmed = 0

\* The handler up to its first response or to the call of chat().
RoutePost ==
    /\ res = NoOutcome
    /\ chatCall = NoOutcome
    /\ IF body = NoBody
       THEN /\ res' = ServerError("Cannot destructure property 'message' of 'req.body'")
            /\ UNCHANGED chatCall
       ELSE IF MessageMissing(body.message)
       THEN /\ res' = BadRequest("Message is required")
            /\ UNCHANGED chatCall
       ELSE IF body.message.length > maxMessageLength
       THEN /\ res' = BadRequest("Message too long (max 1000 characters)")
            /\ UNCHANGED chatCall
       ELSE IF body.conversationHistory.type = "object"
       THEN /\ res' = BadRequest("conversationHistory must be an array")
            /\ UNCHANGED chatCall
       ELSE IF body.conversationHistory.type = "number"
       THEN /\ res' = ServerError("conversationHistory?.slice is not a function")
            /\ UNCHANGED chatCall
       ELSE /\ chatCall' =
                 [message |-> body.message,
                  conversationHistory |-> limitedHistory(body.conversationHistory),
                  history |-> StartChatHistory(limitedHistory(body.conversationHistory))]
            /\ UNCHANGED res
    /\ UNCHANGED body
    /\ UNCHANGED <<chatVars, depVars, toolVars, parked, sideVars>>

\* chat() has resolved: the rest of the handler.
RouteResponds ==
    /\ res = NoOutcome
    /\ chatCall # NoOutcome
    /\ \E result \in ChatResults : res' = RouteJson(result)
    /\ UNCHANGED <<body, chatCall>>
    /\ UNCHANGED <<chatVars, depVars, toolVars, parked, sideVars>>

-----------------------------------------------------------------------------
(* A single-request executor applied to one upstream answer *)

\* The fastest free-flow or current speed, in km/h, of a modelled flow segment
MaxSpeed == 80

\* The longest incident list of a modelled upstream answer
MaxIncidents == 6

FlowAnswers ==
    {Failed, Data([other |-> TRUE])}
    \cup {Data([flowSegmentData |-> [currentSpeed |-> c, freeFlowSpeed |-> f]]) :
            c \in 0..MaxSpeed, f \in 0..MaxSpeed}

\* Incidents as the incident service reports them: with a magnitude of
\* delay from 0 to 5, with properties that have none, or without properties.
Incidents ==
    <<[properties |-> [magnitudeOfDelay |-> 0]], [properties |-> [magnitudeOfDelay |-> 1]],
      [properties |-> [magnitudeOfDelay |-> 2]], [properties |-> [magnitudeOfDelay |-> 3]],
      [properties |-> [magnitudeOfDelay |-> 4]], [properties |-> [magnitudeOfDelay |-> 5]],
      [properties |-> [iconCategory |-> 1]], [type |-> "Feature"]>>

\* The incident lists of the modelled answers: n incidents of successive
\* kinds, from each kind on.
IncidentLists ==
    {[i \in 1..n |-> Incidents[((k + i - 2) % Len(Incidents)) + 1]] :
        n \in 0..MaxIncidents, k \in 1..Len(Incidents)}

IncidentAnswers ==
    {Failed, Data([other |-> TRUE])} \cup {Data([incidents |-> l]) : l \in IncidentLists}

\* The most routes a modelled route computation returns
MaxRoutes == 4

\* The route lists of the modelled answers, their travel times differing
RouteLists ==
    {[i \in 1..n |-> Route(2100 + 300 * i)] : n \in 0..MaxRoutes}
    \cup {<<[legs |-> <<>>]>>}

RoutesAnswers ==
    {Failed, Data([other |-> TRUE])} \cup {Data([routes |-> l]) : l \in RouteLists}

ToolInputs ==
    {[tool |-> "get_traffic_flow", answer |-> a] : a \in FlowAnswers}
    \cup {[tool |-> "get_incidents", answer |-> a] : a \in IncidentAnswers}
    \cup {[tool |-> "calculate_routes", answer |-> a] : a \in RoutesAnswers}

\* What the executor resolves with when it is called with complete
\* arguments and its one upstream request is answered by answer.
ToolReturn(tool, answer) ==
    IF answer.kind = "error" THEN [error |-> UPSTREAM_ERROR]
    ELSE IF tool = "get_traffic_flow" THEN FlowReturn(answer.data)
    ELSE IF tool = "get_incidents" THEN IncidentsReturn(answer.data)
    ELSE RoutesReturn(answer.data)

ToolApply ==
    /\ tOut = NoOutcome
    /\ tIn.tool # "none"
    /\ tOut' = ToolReturn(tIn.tool, tIn.answer)
    /\ UNCHANGED tIn
    /\ UNCHANGED <<chatVars, depVars, routeVars, parked, sideVars>>

-----------------------------------------------------------------------------
(* Two chat sessions whose awaits interleave on the one event loop *)

\* The state of the running call of chat(): its locals and its position.
Running ==
    [pc |-> pc, response |-> response, iterations |-> iterations, toolsUsed |-> toolsUsed,
     call |-> call, sent |-> sent, nSent |-> nSent, nExec |-> nExec, nTurns |-> nTurns,
     upstream |-> upstream, outcome |-> outcome, requested |-> requested,
     inFlight |-> inFlight]

\* A single array at module level, as the other session left it.
ToolsUsedSeenBy_Shared(own, other) == other

\* const toolsUsed = [] is a local of chat(): the array a session finds when
\* it resumes is the one of its own call.
ToolsUsedSeenBy(own, other) == own

\* The running session is suspended at its await and the other one, whose
\* awaited promise has settled, resumes.
Switch ==
    /\ "pc" \in DOMAIN parked
    /\ parked' = Running
    /\ pc' = parked.pc
    /\ response' = parked.response
    /\ iterations' = parked.iterations
    /\ toolsUsed' = ToolsUsedSeenBy(parked.toolsUsed, toolsUsed)
    /\ call' = parked.call
    /\ sent' = parked.sent
    /\ nSent' = parked.nSent
    /\ nExec' = parked.nExec
    /\ nTurns' = parked.nTurns
    /\ upstream' = parked.upstream
    /\ outcome' = parked.outcome
    /\ requested' = parked.requested
    /\ inFlight' = parked.inFlight
    /\ UNCHANGED <<depVars, toolVars, routeVars, sideVars>>

-----------------------------------------------------------------------------
(* The caller of POST /api/chat goes away while chat() runs *)

\* The connection of the request is closed: no response can be delivered.
Disconnected == [closed |-> TRUE]

\* The client disconnects while an operation of its session is in flight.
\* The handler registers no listener for it and chat() takes no signal, so
\* nothing of the session changes.
ClientDisconnects ==
    /\ pc \in {"model", "exec"}
    /\ res = NoOutcome
    /\ res' = Disconnected
    /\ UNCHANGED <<body, chatCall>>
    /\ UNCHANGED <<chatVars, depVars, toolVars, parked, sideVars>>

-----------------------------------------------------------------------------
(* POST /api/vibes (routes/vibes.js): the rate limit of one userId *)

COOLDOWN_SECONDS == 30
MAX_VIBES_PER_DAY == 20

\* resetAt.setHours(resetAt.getHours() + 24), in seconds
resetAfterSeconds == 86400

\* The latest time a modelled run reaches: a day and some twenty cooldowns
MaxClock == 87040

\* The requests one userId has in progress at once (a double tap)
VibeRequests == {1, 2}

\* What the user lets pass between requests: a cooldown, or a day
TickSteps == {30, 86401}

NoTime == -1
NoRow == [absent |-> TRUE]

\* checkRateLimit, on the row findUnique returned and the time read after it
canSubmit(row, now) ==
    IF row = NoRow THEN TRUE
    ELSE IF now - row.lastVibeAt < COOLDOWN_SECONDS THEN FALSE
    ELSE IF now > row.resetAt THEN TRUE
    ELSE IF row.vibeCount24h >= MAX_VIBES_PER_DAY THEN FALSE
    ELSE TRUE

\* The update branch of prisma.vibeRateLimit.upsert in updateRateLimit
UpdateRow(row, now) ==
    [lastVibeAt |-> now, vibeCount24h |-> row.vibeCount24h + 1, resetAt |-> row.resetAt]

\* Its create branch
CreateRow(now) ==
    [lastVibeAt |-> now, vibeCount24h |-> 1, resetAt |-> now + resetAfterSeconds]

\* A request with valid fields arrives: checkRateLimit runs and the handler
\* answers 429 or goes on to create the vibe.
VibeCheck(r) ==
    /\ vpc[r] = "idle"
    /\ vpc' = [vpc EXCEPT ![r] = IF canSubmit(rateLimit, clock) THEN "passed" ELSE "idle"]
    /\ UNCHANGED <<clock, rateLimit, vLast, vPrev, vWindowStart, vWindowCount>>
    /\ UNCHANGED <<voteVars, cacheVars>>
    /\ UNCHANGED <<chatVars, depVars, toolVars, routeVars, parked>>

\* await prisma.vibe.create: the submission is accepted.
VibeCreate(r) ==
    /\ vpc[r] = "passed"
    /\ vpc' = [vpc EXCEPT ![r] = "created"]
    /\ vPrev' = vLast
    /\ vLast' = clock
    /\ IF vWindowStart = NoTime \/ clock - vWindowStart >= resetAfterSeconds
       THEN vWindowStart' = clock /\ vWindowCount' = 1
       ELSE vWindowCount' = vWindowCount + 1 /\ UNCHANGED vWindowStart
    /\ UNCHANGED <<clock, rateLimit>>
    /\ UNCHANGED <<voteVars, cacheVars>>
    /\ UNCHANGED <<chatVars, depVars, toolVars, routeVars, parked>>

\* updateVibeCluster, then updateRateLimit's upsert, then the 200 response.
VibeUpdate(r) ==
    /\ vpc[r] = "created"
    /\ vpc' = [vpc EXCEPT ![r] = "idle"]
    /\ rateLimit' = IF rateLimit = NoRow THEN CreateRow(clock) ELSE UpdateRow(rateLimit, clock)
    /\ UNCHANGED <<clock, vLast, vPrev, vWindowStart, vWindowCount>>
    /\ UNCHANGED <<voteVars, cacheVars>>
    /\ UNCHANGED <<chatVars, depVars, toolVars, routeVars, parked>>

\* Time passes.  The user of the modelled runs waits out a cooldown
\* or stays away for a day.
VibeTick ==
    /\ \E d \in TickSteps :
         /\ clock + d <= MaxClock
         /\ d < resetAfterSeconds => (vLast # NoTime /\ clock - vLast < COOLDOWN_SECONDS)
         /\ clock' = clock + d
    /\ UNCHANGED <<vibeVars, voteVars, cacheVars>>
    /\ UNCHANGED <<chatVars, depVars, toolVars, routeVars, parked>>

VibeOff ==
    /\ rateLimit = NoRow
    /\ vpc = [r \in VibeRequests |-> "off"]
    /\ vLast = NoTime /\ vPrev = NoTime
    /\ vWindowStart = NoTime /\ vWindowCount = 0

-----------------------------------------------------------------------------
(* POST /api/incidents/:id/vote (routes/incidents.js) on one incident *)

\* The vote requests of a modelled run
MaxVoteRequests == 3

Voters == {"u1", "u2"}

\* req.body.voteType: the two valid values and one that is neither
VoteTypes == {"confirm", "deny", "maybe"}

NoVote == [id |-> 0, voterIp |-> "", voteType |-> ""]

\* An IncidentVote row; the id of a row created by request r is r
VoteRow(id, voter, voteType) == [id |-> id, voterIp |-> voter, voteType |-> voteType]

VotesOf(voter) == {v \in incidentVotes : v.voterIp = voter}

\* The vote is validated and the incident is looked up.
VoteFindIncident(r) ==
    /\ voteReq[r].pc = "start"
    /\ voteReq' = [voteReq EXCEPT ![r].pc =
                      IF voteReq[r].voteType \notin {"confirm", "deny"} THEN "done 400"
                      ELSE IF ~isActive THEN "done 400"
                      ELSE "findFirst"]
    /\ UNCHANGED <<incidentVotes, confirmations, denials, isActive>>
    /\ UNCHANGED <<clock, vibeVars, cacheVars>>
    /\ UNCHANGED <<chatVars, depVars, toolVars, routeVars, parked>>

\* await prisma.incidentVote.findFirst resolves with the voter's row or null.
VoteFindFirst(r) ==
    /\ voteReq[r].pc = "findFirst"
    /\ \E existingVote \in (IF VotesOf(voteReq[r].voter) = {} THEN {NoVote}
                                ELSE VotesOf(voteReq[r].voter)) :
         voteReq' = [voteReq EXCEPT
                        ![r].existingVote = existingVote,
                        ![r].pc = IF existingVote = NoVote THEN "create"
                                  ELSE IF existingVote.voteType # voteReq[r].voteType
                                  THEN "update"
                                  ELSE "findUpdated"]
    /\ UNCHANGED <<incidentVotes, confirmations, denials, isActive>>
    /\ UNCHANGED <<clock, vibeVars, cacheVars>>
    /\ UNCHANGED <<chatVars, depVars, toolVars, routeVars, parked>>

\* await prisma.incidentVote.update({ where: { id: existingVote.id } })
VoteUpdate(r) ==
    /\ voteReq[r].pc = "update"
    /\ incidentVotes' =
          {IF v.id = voteReq[r].existingVote.id
           THEN VoteRow(v.id, v.voterIp, voteReq[r].voteType) ELSE v : v \in incidentVotes}
    /\ voteReq' = [voteReq EXCEPT ![r].pc = "count changed"]
    /\ UNCHANGED <<confirmations, denials, isActive>>
    /\ UNCHANGED <<clock, vibeVars, cacheVars>>
    /\ UNCHANGED <<chatVars, depVars, toolVars, routeVars, parked>>

\* await prisma.incidentVote.create: the unique index on (incidentId,
\* voterIp) makes it throw when the voter has a row by now.
VoteCreate(r) ==
    /\ voteReq[r].pc = "create"
    /\ IF VotesOf(voteReq[r].voter) # {}
       THEN /\ voteReq' = [voteReq EXCEPT ![r].pc = "done 500"]
            /\ UNCHANGED incidentVotes
       ELSE /\ incidentVotes' =
                 incidentVotes \cup {VoteRow(r, voteReq[r].voter, voteReq[r].voteType)}
            /\ voteReq' = [voteReq EXCEPT ![r].pc = "count new"]
    /\ UNCHANGED <<confirmations, denials, isActive>>
    /\ UNCHANGED <<clock, vibeVars, cacheVars>>
    /\ UNCHANGED <<chatVars, depVars, toolVars, routeVars, parked>>

\* await prisma.incident.update with the increments and decrements
VoteCount(r) ==
    /\ voteReq[r].pc \in {"count changed", "count new"}
    /\ LET changed == IF voteReq[r].pc = "count changed" THEN 1 ELSE 0
       IN  IF voteReq[r].voteType = "confirm"
           THEN confirmations' = confirmations + 1 /\ denials' = denials - changed
           ELSE confirmations' = confirmations - changed /\ denials' = denials + 1
    /\ voteReq' = [voteReq EXCEPT ![r].pc = "findUpdated"]
    /\ UNCHANGED <<incidentVotes, isActive>>
    /\ UNCHANGED <<clock, vibeVars, cacheVars>>
    /\ UNCHANGED <<chatVars, depVars, toolVars, routeVars, parked>>

\* updatedIncident is read and the two checks are made on it (isVerified,
\* which nothing here reads, is left out).
VoteFindUpdated(r) ==
    /\ voteReq[r].pc = "findUpdated"
    /\ voteReq' = [voteReq EXCEPT ![r].pc =
                      IF denials >= 3 /\ denials > confirmations * 2
                      THEN "resolve" ELSE "done 200"]
    /\ UNCHANGED <<incidentVotes, confirmations, denials, isActive>>
    /\ UNCHANGED <<clock, vibeVars, cacheVars>>
    /\ UNCHANGED <<chatVars, depVars, toolVars, routeVars, parked>>

\* await prisma.incident.update({ data: { isActive: false, ... } })
VoteResolve(r) ==
    /\ voteReq[r].pc = "resolve"
    /\ isActive' = FALSE
    /\ voteReq' = [voteReq EXCEPT ![r].pc = "done 200"]
    /\ UNCHANGED <<incidentVotes, confirmations, denials>>
    /\ UNCHANGED <<clock, vibeVars, cacheVars>>
    /\ UNCHANGED <<chatVars, depVars, toolVars, routeVars, parked>>

VoteOff ==
    /\ incidentVotes = {}
    /\ confirmations = 1
    /\ denials = 0
    /\ isActive = TRUE
    /\ voteReq = <<>>

-----------------------------------------------------------------------------
(* getOrFetch (utils/cache.js) on caches.traffic *)

\* stdTTL of caches.traffic, in seconds
stdTTL == 30

\* The getOrFetch calls of a modelled run
MaxFetchCalls == 3

\* The latest time a modelled cache run reaches
MaxCacheClock == 60

CacheKeys == {"flow:25.2,55.3", "flow:25.1,55.2"}

\* What a fetchFn resolves with: response.data of two answers, or null
FetchedData == {[json |-> "A"], [json |-> "B"], [null |-> TRUE]}

FETCH_ERROR == "External service unavailable"

\* What cache.get returns for a key it does not hold
Undefined == [undefined |-> TRUE]

\* Every lookup misses.
cacheGet_NeverHits(entries, key, now) == Undefined

\* cache.get(key): the stored value, unless there is none or its time is up
cacheGet(entries, key, now) ==
    IF entries[key] = Undefined THEN Undefined
    ELSE IF entries[key].t < now THEN Undefined
    ELSE entries[key].v

\* cache.set(key, data): the value with its expiry time
cacheSet(entries, key, data, now) ==
    [entries EXCEPT ![key] = [v |-> data, t |-> now + stdTTL]]

\* getOrFetch is called: up to its return, its throw or its await.
GetOrFetch(c) ==
    /\ fetchCalls[c].pc = "idle"
    /\ IF fetchCalls[c].cacheType # "traffic"
       THEN /\ fetchCalls' = [fetchCalls EXCEPT
                                 ![c].pc = "done",
                                 ![c].settled = Rejected("Unknown cache type: " \o fetchCalls[c].cacheType)]
            /\ UNCHANGED nFetch
       ELSE LET cached == cacheGet(cacheData, fetchCalls[c].key, clock)
            IN  IF cached # Undefined
                THEN /\ fetchCalls' = [fetchCalls EXCEPT
                                          ![c].pc = "done",
                                          ![c].settled = Resolved([data |-> cached, cached |-> TRUE])]
                     /\ UNCHANGED nFetch
                ELSE /\ fetchCalls' = [fetchCalls EXCEPT ![c].pc = "fetching"]
                     /\ nFetch' = nFetch + 1
    /\ UNCHANGED <<cacheData, clock>>
    /\ UNCHANGED <<vibeVars, voteVars>>
    /\ UNCHANGED <<chatVars, depVars, toolVars, routeVars, parked>>

\* await fetchFn() resolves: the data is stored and returned.
FetchResolves(c) ==
    /\ fetchCalls[c].pc = "fetching"
    /\ \E data \in FetchedData :
         /\ cacheData' = cacheSet(cacheData, fetchCalls[c].key, data, clock)
         /\ fetchCalls' = [fetchCalls EXCEPT
                              ![c].pc = "done",
                              ![c].settled = Resolved([data |-> data, cached |-> FALSE])]
    /\ UNCHANGED <<nFetch, clock>>
    /\ UNCHANGED <<vibeVars, voteVars>>
    /\ UNCHANGED <<chatVars, depVars, toolVars, routeVars, parked>>

\* await fetchFn() rejects: getOrFetch rejects with the same error.
FetchRejects(c) ==
    /\ fetchCalls[c].pc = "fetching"
    /\ fetchCalls' = [fetchCalls EXCEPT ![c].pc = "done", ![c].settled = Rejected(FETCH_ERROR)]
    /\ UNCHANGED <<cacheData, nFetch, clock>>
    /\ UNCHANGED <<vibeVars, voteVars>>
    /\ UNCHANGED <<chatVars, depVars, toolVars, routeVars, parked>>

CacheTick ==
    /\ clock + 20 <= MaxCacheClock
    /\ clock' = clock + 20
    /\ UNCHANGED <<vibeVars, voteVars, cacheVars>>
    /\ UNCHANGED <<chatVars, depVars, toolVars, routeVars, parked>>

CacheOff ==
    /\ cacheData = [k \in CacheKeys |-> Undefined]
    /\ fetchCalls = <<>>
    /\ nFetch = 0

\* chat() has just been called.
ChatInit ==
    /\ pc = "start"
    /\ response = NoResponse
    /\ iterations = 0
    /\ toolsUsed = <<>>
    /\ call = NoCall
    /\ sent = NoMessage
    /\ nSent = 0
    /\ nExec = 0
    /\ nTurns = 0
    /\ upstream = "none"
    /\ outcome = NoOutcome
    /\ requested = <<>>
    /\ inFlight = {}

\* No chat session is part of the run.
ChatOff ==
    /\ pc = "off"
    /\ response = NoResponse
    /\ iterations = 0
    /\ toolsUsed = <<>>
    /\ call = NoCall
    /\ sent = NoMessage
    /\ nSent = 0
    /\ nExec = 0
    /\ nTurns = 0
    /\ upstream = "none"
    /\ outcome = NoOutcome
    /\ requested = <<>>

DepartureOff ==
    /\ dpc = "off"
    /\ dArgs = "undefined"
    /\ dIdx = 0
    /\ results = <<>>
    /\ dAnswers = <<>>
    /\ dRequests = <<>>
    /\ dReturn = NoOutcome

ToolOff ==
    /\ tIn = [tool |-> "none"]
    /\ tOut = NoOutcome

RouteOff ==
    /\ body = [nothing |-> TRUE]
    /\ res = NoOutcome
    /\ chatCall = NoOutcome

NoSession == [none |-> TRUE]

Init ==
    /\ ChatInit
    /\ DepartureOff
    /\ ToolOff
    /\ RouteOff
    /\ parked = NoSession
    /\ clock = 0 /\ VibeOff /\ VoteOff /\ CacheOff

Next ==
    \/ Start
    \/ SendMessageRejects
    \/ SendMessageResolves
    \/ ExecutorReturns

Spec == Init /\ [][Next]_vars

\* Every await of chat() settles: the model client resolves or rejects each
\* sendMessage, and every upstream request has a 10 s timeout.
FairSpec == Spec /\ WF_vars(Next)

\* One run of get_departure_times on its own.
DepartureInit ==
    /\ dpc = "call"
    /\ dArgs \in ArgValues
    /\ dIdx = 0
    /\ results = <<>>
    /\ dAnswers = <<>>
    /\ dRequests = <<>>
    /\ dReturn = NoOutcome
    /\ inFlight = {}
    /\ ChatOff /\ ToolOff /\ RouteOff /\ parked = NoSession
    /\ clock = 0 /\ VibeOff /\ VoteOff /\ CacheOff

DepartureNext == DepartureCall \/ DepartureAnswer

DepartureSpec == DepartureInit /\ [][DepartureNext]_vars

\* One executor call on one upstream answer.
ToolInit ==
    /\ tIn \in ToolInputs
    /\ tOut = NoOutcome
    /\ inFlight = {}
    /\ ChatOff /\ DepartureOff /\ RouteOff /\ parked = NoSession
    /\ clock = 0 /\ VibeOff /\ VoteOff /\ CacheOff

ToolSpec == ToolInit /\ [][ToolApply]_vars

\* One request to POST /api/chat.
RouteInit ==
    /\ body \in Bodies
    /\ res = NoOutcome
    /\ chatCall = NoOutcome
    /\ inFlight = {}
    /\ ChatOff /\ DepartureOff /\ ToolOff /\ parked = NoSession
    /\ clock = 0 /\ VibeOff /\ VoteOff /\ CacheOff

RouteNext == RoutePost \/ RouteResponds

RouteSpec == RouteInit /\ [][RouteNext]_vars

\* The outbound operations of one session: a run of chat(), or the run of
\* get_departure_times one of its executor calls stands for.
SessionInit == Init \/ DepartureInit

SessionNext == Next \/ DepartureNext

SessionSpec == SessionInit /\ [][SessionNext]_vars

\* Two calls of chat() have been made.
ConcurrentInit ==
    /\ ChatInit
    /\ parked = [pc |-> "start", response |-> NoResponse, iterations |-> 0,
                 toolsUsed |-> <<>>, call |-> NoCall, sent |-> NoMessage, nSent |-> 0,
                 nExec |-> 0, nTurns |-> 0, upstream |-> "none", outcome |-> NoOutcome,
                 requested |-> <<>>, inFlight |-> {}]
    /\ DepartureOff /\ ToolOff /\ RouteOff
    /\ clock = 0 /\ VibeOff /\ VoteOff /\ CacheOff

ConcurrentNext == Next \/ Switch

ConcurrentSpec == ConcurrentInit /\ [][ConcurrentNext]_vars

\* A run of chat() on behalf of a request whose client may disconnect.
AbandonNext == Next \/ ClientDisconnects

AbandonSpec == Init /\ [][AbandonNext]_vars

\* The userId has never submitted a vibe.
VibeInit ==
    /\ clock = 0
    /\ rateLimit = NoRow
    /\ vpc = [r \in VibeRequests |-> "idle"]
    /\ vLast = NoTime /\ vPrev = NoTime
    /\ vWindowStart = NoTime /\ vWindowCount = 0
    /\ inFlight = {}
    /\ ChatOff /\ DepartureOff /\ ToolOff /\ RouteOff /\ parked = NoSession
    /\ VoteOff /\ CacheOff

VibeNext ==
    \/ \E r \in VibeRequests : VibeCheck(r) \/ VibeCreate(r) \/ VibeUpdate(r)
    \/ VibeTick

VibeSpec == VibeInit /\ [][VibeNext]_vars

\* The incident has its reporter's confirmation and the votes cast so
\* far, with the counters a run of one request after the other leaves.
VoteInit ==
    /\ incidentVotes \in {{}, {VoteRow(11, "u1", "confirm")}, {VoteRow(11, "u1", "deny")}}
    /\ confirmations = 1 + Cardinality({v \in incidentVotes : v.voteType = "confirm"})
    /\ denials = Cardinality({v \in incidentVotes : v.voteType = "deny"})
    /\ isActive = TRUE
    /\ voteReq \in [1..MaxVoteRequests ->
                       {[voter |-> u, voteType |-> t, pc |-> "start", existingVote |-> NoVote] :
                           u \in Voters, t \in VoteTypes}]
    /\ clock = 0 /\ VibeOff /\ CacheOff
    /\ inFlight = {}
    /\ ChatOff /\ DepartureOff /\ ToolOff /\ RouteOff /\ parked = NoSession

VoteNext ==
    \E r \in DOMAIN voteReq :
        \/ VoteFindIncident(r)
        \/ VoteFindFirst(r)
        \/ VoteUpdate(r)
        \/ VoteCreate(r)
        \/ VoteCount(r)
        \/ VoteFindUpdated(r)
        \/ VoteResolve(r)

VoteSpec == VoteInit /\ [][VoteNext]_vars

\* The cache is empty and the calls have not been made yet.
CacheInit ==
    /\ clock = 0
    /\ cacheData = [k \in CacheKeys |-> Undefined]
    /\ fetchCalls \in [1..MaxFetchCalls ->
                          {[cacheType |-> t, key |-> k, pc |-> "idle", settled |-> NoOutcome] :
                              t \in {"traffic", "weather"}, k \in CacheKeys}]
    /\ nFetch = 0
    /\ VibeOff /\ VoteOff
    /\ inFlight = {}
    /\ ChatOff /\ DepartureOff /\ ToolOff /\ RouteOff /\ parked = NoSession

CacheNext ==
    \/ \E c \in DOMAIN fetchCalls : GetOrFetch(c) \/ FetchResolves(c) \/ FetchRejects(c)
    \/ CacheTick

CacheSpec == CacheInit /\ [][CacheNext]_vars

-----------------------------------------------------------------------------
(* Predicates over a run, used by the properties below *)

HasContent(r) == r.candidates # <<>> /\ "content" \in DOMAIN r.candidates[1]

PartsOf(r) == r.candidates[1].content.parts

RequestsTool(r) == HasContent(r) /\ FindFunctionCall(PartsOf(r)) # 0

\* A turn of plain text: some text and no tool request.
PlainText(r) == HasContent(r) /\ ~RequestsTool(r) /\ JoinText(PartsOf(r)) # ""

\* A malformed turn: no candidate, or neither text nor a tool request.
Malformed(r) ==
    \/ r.candidates = <<>>
    \/ HasContent(r) /\ ~RequestsTool(r) /\ JoinText(PartsOf(r)) = ""

\* The loop has examined the turn held in response.
Examined == nTurns >= 1 /\ iterations = nTurns

Done == pc = "done"

UnregisteredRequested == \E i \in 1..Len(toolsUsed) : toolsUsed[i] \notin TRAFFIC_TOOLS

AllRegistered == \A i \in 1..Len(toolsUsed) : toolsUsed[i] \in TRAFFIC_TOOLS

\* The used-tools list the caller finds in the outcome.
UsedTools(o) == IF "toolsUsed" \in DOMAIN o THEN o.toolsUsed ELSE <<>>

\* An upper bound on the awaits chat() still has to pass.
Variant ==
    2 * (maxIterations - iterations)
    + (CASE pc = "start" -> 3 [] pc = "model" -> 2 [] pc = "exec" -> 3 [] OTHER -> 0)

-----------------------------------------------------------------------------
(* C1: whatever the model answers and whatever the tools do, chat() returns:
   every step brings the run closer to its end (the number of awaits left
   strictly decreases and is never negative) and the run reaches its
   terminal outcome. *)
C1_Terminates ==
    /\ [][Variant' < Variant]_vars
    /\ [](Variant >= 0)
    /\ <>Done

\* The loop ran to its bound, five tools executed, and chat() returned.
C1_Witness == Done /\ iterations = maxIterations /\ nExec = maxIterations /\ nTurns = maxIterations + 1

(* C2: when the model asks for a tool on every turn and gives no text answer
   within 5 tool cycles, chat() returns a failure outcome (success false). *)
C2_BoundExceededFails ==
    (Done /\ nExec = maxIterations /\ nTurns = maxIterations + 1 /\ RequestsTool(response))
        => outcome.success = FALSE

(* C3: when the model requests a registered tool on each of its first k turns,
   0 <= k <= 5, and then answers in plain text, chat() returns success with
   exactly that text as the message. *)
C3_TextAfterTools ==
    (Done /\ AllRegistered /\ nTurns = Len(toolsUsed) + 1 /\ PlainText(response))
        => (outcome.success = TRUE /\ outcome.message = JoinText(PartsOf(response)))

(* C4: a run of chat() executes at most 5 tools and records at most 5 names;
   a model that requests a tool on 6 consecutive turns gets an outcome whose
   used-tools list has exactly 5 entries. *)
C4_AtMostFiveTools ==
    /\ nExec <= 5
    /\ Len(toolsUsed) <= 5
    /\ (Done /\ nTurns = 6 /\ RequestsTool(response))
          => ("toolsUsed" \in DOMAIN outcome /\ Len(outcome.toolsUsed) = 5)

\* Six turns in a row requested a tool and chat() has returned.
C4_Witness == Done /\ nTurns = 6 /\ RequestsTool(response) /\ nExec = 5

(* C5: once a model turn has requested a name that is not a registered tool,
   chat() returns a failure outcome (success false). *)
C5_UnknownToolFails ==
    (Done /\ UnregisteredRequested) => outcome.success = FALSE

(* C6: a turn that requests an unregistered tool name invokes no executor,
   and from then on no message is sent to the model. *)
C6_UnknownToolStopsEverything ==
    [][UnregisteredRequested' => (nExec' = nExec /\ nSent' = nSent)]_vars

(* C7: when the loop examines a malformed turn (no candidate, or neither text
   nor a tool request), chat() returns a failure outcome. *)
C7_MalformedTurnFails ==
    (Done /\ Examined /\ Malformed(response)) => outcome.success = FALSE

(* C8: when the model answers without ever requesting a tool, the outcome
   lists no tools and its success flag is true exactly when the model
   produced non-empty text. *)
C8_NoToolOutcome ==
    (Done /\ Examined /\ toolsUsed = <<>>)
        => /\ UsedTools(outcome) = <<>>
           /\ outcome.success = PlainText(response)

(* C9: when a registered executor is called with an argument object, then
   whatever the upstream service does the session does not end there: the
   executor's result is sent to the model as the function response, and it
   is a failure descriptor whenever the upstream call failed or came back
   empty (an empty incident list is reported as a clear road instead). *)
C9_ToolFailureFedBack ==
    [][(pc = "exec" /\ call.name \in TRAFFIC_TOOLS /\ call.args # "undefined")
        => /\ pc' = "model"
           /\ nSent' = nSent + 1
           /\ "functionResponse" \in DOMAIN sent'
           /\ sent'.functionResponse.name = call.name
           /\ (upstream' # "ok" /\ ~(call.name = "get_incidents" /\ upstream' = "empty"))
                 => IsFailure(sent'.functionResponse.response)]_vars

\* A tool failed, its failure descriptor went to the model, and the model's
\* next turn ended the session with a text answer.
C9_Witness ==
    /\ Done
    /\ upstream = "error"
    /\ "functionResponse" \in DOMAIN sent
    /\ IsFailure(sent.functionResponse.response)
    /\ outcome.success = TRUE
    /\ outcome.message # ""

(* C10: awaiting a registered executor never rejects into the loop, whatever
   args the model supplied: the loop always goes on to send a result. *)
C10_ExecutorNeverRejects ==
    [][(pc = "exec" /\ call.name \in TRAFFIC_TOOLS) => pc' = "model"]_vars

-----------------------------------------------------------------------------
(* Vocabulary of the claims about the executors, the route and two sessions *)

\* The answer to one route request is a route with a travel time.
Yields(a) == \E t \in TravelTimes : a = Data([routes |-> <<Route(t)>>])

\* Its duration in minutes, halves rounded up
Minutes(a) == (a.data.routes[1].summary.travelTimeInSeconds + 30) \div 60

\* get_departure_times was called with its arguments and all four requests
\* have been answered.
Answered == dpc = "done" /\ Len(dAnswers) = 4

\* The offsets, by index, whose request yielded a route
Surviving == {i \in 1..4 : Yields(dAnswers[i])}

\* The entries of the returned list that are marked best
Marked == {k \in 1..Len(dReturn.value.departureTimes) : dReturn.value.departureTimes[k].isBest}

\* The text a recommendation to wait is made of
WaitText(minutes, saved) ==
    <<"Wait ", ToString(minutes), " min", " to save ", ToString(saved), " minutes">>

\* The history the caller supplied, as a list
Supplied == IF body.conversationHistory.type = "array" THEN body.conversationHistory.turns ELSE <<>>

\* What a session that has returned must have returned, given the turns and
\* errors it received itself.
OwnOutcome(s) ==
    IF s.outcome.success
    THEN /\ s.outcome.toolsUsed = SubSeq(s.requested, 1, IF Len(s.requested) < 5 THEN Len(s.requested) ELSE 5)
         /\ s.outcome.message = IF s.iterations = s.nTurns /\ PlainText(s.response)
                                THEN JoinText(PartsOf(s.response)) ELSE ""
    ELSE /\ s.outcome.message = FRIENDLY_ERROR
         /\ s.outcome.error \in ModelErrors

(* C11: every failure outcome that reaches the caller of POST /api/chat is
   the fixed friendly message and nothing else: the response body carries no
   internal error text, so two runs that fail with different internal errors
   get the same response. *)
C11_FailureHidesInternalError ==
    (Done /\ outcome.success = FALSE)
        => /\ "error" \notin DOMAIN RouteJson(outcome).body
           /\ RouteJson(outcome).body.message = FRIENDLY_ERROR

(* C12: when chat() returns after examining a turn of plain text, the outcome
   has success true, that text as its message, and a used-tools list equal
   to the tool names the model requested, in the order of the requests and
   with repeated names repeated. *)
C12_DoneOutcome ==
    (Done /\ Examined /\ PlainText(response))
        => /\ outcome.success = TRUE
           /\ outcome.message = JoinText(PartsOf(response))
           /\ "toolsUsed" \in DOMAIN outcome
           /\ outcome.toolsUsed = requested

\* The model asked for the same tool twice, with another one in between, and
\* then answered in text.
C12_Witness ==
    /\ Done /\ Examined /\ PlainText(response)
    /\ requested = <<"search_place", "get_incidents", "search_place">>
    /\ outcome.success = TRUE

(* C13: when none of the four route requests of get_departure_times yields a
   route, it returns the overall failure descriptor; and a payload with a
   departureTimes list never has an empty one. *)
C13_AllFailedIsFailure ==
    Answered
        => /\ dReturn.settled = "resolved"
           /\ (Surviving = {}) => dReturn.value = [error |-> "Could not calculate departure times"]
           /\ ("departureTimes" \in DOMAIN dReturn.value) => Len(dReturn.value.departureTimes) > 0

\* The four requests ended in four different ways, none with a route.
C13_Witness ==
    /\ Answered
    /\ dAnswers = <<Failed, Data([routes |-> <<>>]), Data([other |-> TRUE]), Failed>>
    /\ "error" \in DOMAIN dReturn.value

(* C14: whenever at least one offset yields a route, get_departure_times
   returns one entry per surviving offset, exactly one entry is marked
   isBest, no surviving entry is shorter than it, and it is the entry the
   recommendation names; this holds when durations tie as well. *)
C14_BestIsMinimum ==
    (Answered /\ Surviving # {})
        => /\ "departureTimes" \in DOMAIN dReturn.value
           /\ Len(dReturn.value.departureTimes) = Cardinality(Surviving)
           /\ Cardinality(Marked) = 1
           /\ \A k \in Marked :
                LET best == dReturn.value.departureTimes[k]
                    rec == dReturn.value.recommendation
                IN  /\ \A i \in Surviving : best.durationMinutes <= Minutes(dAnswers[i])
                    /\ \E i \in Surviving : /\ best.label = Label(offsets[i])
                                            /\ best.durationMinutes = Minutes(dAnswers[i])
                                            /\ IF i = 1
                                               THEN rec = <<"Now is the best time to leave!">>
                                               ELSE rec[2] = ToString(offsets[i])

\* Two offsets tie for the shortest duration (34.5 and 35 minutes both round
\* to 35) and a third one is longer.
C14_Witness ==
    /\ Answered
    /\ dAnswers[2] = Data([routes |-> <<Route(2100)>>])
    /\ dAnswers[3] = Data([routes |-> <<Route(2070)>>])
    /\ dAnswers[1] = Data([routes |-> <<Route(2400)>>])
    /\ Cardinality(Marked) = 1

(* C15: when the recommended entry is "Now" the recommendation says that now
   is the best time to leave; otherwise it names the chosen offset as the
   wait and, as the time saved, the duration at offset 0 minus the duration
   at the chosen offset, whichever offsets survive. *)
C15_TimeSavedAgainstNow ==
    (Answered /\ Surviving # {})
        => \A k \in Marked :
             LET best == dReturn.value.departureTimes[k]
                 rec == dReturn.value.recommendation
             IN  IF best.label = <<"Now">>
                 THEN rec = <<"Now is the best time to leave!">>
                 ELSE /\ Yields(dAnswers[1])
                      /\ \E i \in Surviving :
                           /\ best.label = Label(offsets[i])
                           /\ rec = WaitText(offsets[i],
                                             Minutes(dAnswers[1]) - best.durationMinutes)

(* C16: get_traffic_flow grades current speed against free-flow speed:
   below 30 percent severe, below 50 heavy, below 70 moderate, below 90
   light, otherwise clear, a speed exactly on a boundary getting the milder
   grade; 20 against 80 is severe and 75 against 80 is clear. *)
C16_Tiers ==
    (tOut # NoOutcome /\ tIn.tool = "get_traffic_flow" /\ tIn.answer.kind = "data"
        /\ "flowSegmentData" \in DOMAIN tIn.answer.data
        /\ tIn.answer.data.flowSegmentData.freeFlowSpeed > 0)
        => LET c == tIn.answer.data.flowSegmentData.currentSpeed
               f == tIn.answer.data.flowSegmentData.freeFlowSpeed
           IN  /\ tOut.condition = "severe" <=> 100 * c < 30 * f
               /\ tOut.condition = "heavy" <=> (100 * c >= 30 * f /\ 100 * c < 50 * f)
               /\ tOut.condition = "moderate" <=> (100 * c >= 50 * f /\ 100 * c < 70 * f)
               /\ tOut.condition = "light" <=> (100 * c >= 70 * f /\ 100 * c < 90 * f)
               /\ tOut.condition = "clear" <=> 100 * c >= 90 * f
               /\ (c = 20 /\ f = 80) => tOut.condition = "severe"
               /\ (c = 75 /\ f = 80) => tOut.condition = "clear"

\* A speed exactly on the 30 percent boundary has been graded heavy.
C16_Witness ==
    /\ tIn.tool = "get_traffic_flow"
    /\ tIn.answer = Data([flowSegmentData |-> [currentSpeed |-> 24, freeFlowSpeed |-> 80]])
    /\ tOut # NoOutcome
    /\ tOut.condition = "heavy"

(* C17: when the incident lookup succeeds with an empty incident list, or
   with no incidents field at all, get_incidents returns an empty list with
   the message that the roads are clear, and no error field. *)
C17_NoIncidentsIsSuccess ==
    (tOut # NoOutcome /\ tIn.tool = "get_incidents" /\ tIn.answer.kind = "data"
        /\ ("incidents" \in DOMAIN tIn.answer.data => tIn.answer.data.incidents = <<>>))
        => /\ "error" \notin DOMAIN tOut
           /\ tOut.incidents = <<>>
           /\ tOut.message = "No incidents reported in this area - roads are clear!"

\* The lookup answered without an incidents field and the executor returned.
C17_Witness ==
    /\ tIn = [tool |-> "get_incidents", answer |-> Data([other |-> TRUE])]
    /\ tOut # NoOutcome
    /\ "message" \in DOMAIN tOut

(* C18: chat() is given the last 10 turns of the supplied history, or all of
   them when there are fewer, in their original order, and puts them after its
   two opening turns; a missing history is the empty list. *)
C18_LastTenTurns ==
    (chatCall # NoOutcome)
        => LET n == Len(Supplied)
               m == IF n < 10 THEN n ELSE 10
               kept == chatCall.conversationHistory
           IN  /\ Len(kept) = m
               /\ \A i \in 1..m : kept[i] = Supplied[n - m + i]
               /\ Len(chatCall.history) = m + 2
               /\ \A i \in 1..m : chatCall.history[i + 2] = kept[i]
               /\ (body.conversationHistory.type = "undefined") => kept = <<>>

\* Twelve turns were supplied, the third differing from the first, and
\* chat() was called.
C18_Witness ==
    /\ chatCall # NoOutcome
    /\ Len(Supplied) = 12
    /\ Supplied[1] # Supplied[3]
    /\ chatCall.conversationHistory[1] = Supplied[3]

(* C19: a session never has two outbound operations in flight: while a model
   turn is awaited only that message is out, while an executor is awaited
   only that executor is out, and in get_departure_times only the request
   for the current offset is out. *)
C19_OneInFlight ==
    /\ Cardinality(inFlight) <= 1
    /\ (pc = "model") => inFlight = {"sendMessage"}
    /\ (pc = "exec") => inFlight = {"executor"}
    /\ (dpc = "await") => inFlight = {RequestOf(offsets[dIdx])}
    /\ (pc \in {"start", "done"} \/ dpc \in {"call", "done"}) => inFlight = {}

\* The request for the third offset is out, after two answered ones.
C19_Witness == dpc = "await" /\ dIdx = 3 /\ Len(dAnswers) = 2 /\ inFlight = {RequestOf(60)}

(* C20: however the steps of two chat sessions interleave, each session
   that has returned has returned what its own model turns and errors
   determine: its used-tools list holds the names it was asked for itself
   and its message is the text of its own last turn. *)
C20_SessionsIsolated ==
    ("pc" \in DOMAIN parked)
        => /\ Done => OwnOutcome(Running)
           /\ (parked.pc = "done") => OwnOutcome(parked)

\* Both sessions have returned after interleaving, each with different tools.
C20_Witness ==
    /\ "pc" \in DOMAIN parked
    /\ Done /\ parked.pc = "done"
    /\ outcome.success = TRUE /\ parked.outcome.success = TRUE
    /\ outcome.toolsUsed = <<"search_place", "search_place">>
    /\ parked.outcome.toolsUsed = <<"get_incidents">>

(* C21: once the caller has abandoned the session, the operation in flight
   may complete but no executor is invoked and no message is sent to the
   model after that. *)
C21_CancelStopsSession ==
    [][(res = Disconnected) => (nExec' = nExec /\ nSent' = nSent)]_vars

(* C24: every pass of the loop invokes at most one executor, also for a turn
   with several tool requests, and each invocation after the first follows
   exactly one model turn, the one that answered the message carrying the
   result of the previous tool. *)
C24_OneToolPerTurn ==
    [][(nExec' # nExec)
        => /\ nExec' = nExec + 1
           /\ nTurns' = nTurns + 1
           /\ iterations' = iterations + 1
           /\ nExec' = nTurns'
           /\ (nExec >= 1) => /\ "functionResponse" \in DOMAIN sent
                              /\ sent.functionResponse.name = toolsUsed[nExec]
                              /\ nSent = nExec + 1]_vars

\* The second turn carried two tool requests and one executor is running.
C24_Witness ==
    /\ pc = "exec"
    /\ nExec = 2 /\ nTurns = 2
    /\ response = Turn(<<CallPart("search_place", "complete"), CallPart("get_incidents", "complete")>>)
    /\ call.name = "search_place"

(* C25: a failure outcome of chat() carries the used-tools list: the names
   recorded before the failure, in call order. *)
C25_FailureCarriesTools ==
    (Done /\ outcome.success = FALSE)
        => /\ "toolsUsed" \in DOMAIN outcome
           /\ outcome.toolsUsed = toolsUsed

(* C22: whatever number of routes the route service returns, the success
   payload of calculate_routes lists at most 3 of them. *)
C22_AtMostThreeRoutes ==
    (tOut # NoOutcome /\ tIn.tool = "calculate_routes" /\ "routes" \in DOMAIN tOut)
        => Len(tOut.routes) <= 3

(* C27: get_incidents passes on the first 5 incidents of the upstream list,
   in upstream order, and totalCount is the length of the whole list; the
   severity of each is Minor, Moderate, Major or Severe for magnitude 1, 2,
   3 or 4 and Unknown for 0, for any other magnitude and for none. *)
C27_FirstFiveWithSeverity ==
    (tOut # NoOutcome /\ tIn.tool = "get_incidents" /\ tIn.answer.kind = "data"
        /\ "incidents" \in DOMAIN tIn.answer.data /\ tIn.answer.data.incidents # <<>>)
        => LET given == tIn.answer.data.incidents
               n == Len(given)
               Code(inc) == IF "properties" \in DOMAIN inc
                                 /\ "magnitudeOfDelay" \in DOMAIN inc.properties
                            THEN inc.properties.magnitudeOfDelay ELSE 99
               Severity(m) == IF m = 1 THEN "Minor" ELSE IF m = 2 THEN "Moderate"
                              ELSE IF m = 3 THEN "Major" ELSE IF m = 4 THEN "Severe"
                              ELSE "Unknown"
           IN  /\ Len(tOut.incidents) = (IF n < 5 THEN n ELSE 5)
               /\ tOut.totalCount = n
               /\ \A i \in 1..Len(tOut.incidents) :
                    tOut.incidents[i].severity = Severity(Code(given[i]))

\* Six incidents came back, of magnitudes 3, 4, 5, none, none and 0.
C27_Witness ==
    /\ tIn.tool = "get_incidents" /\ tIn.answer.kind = "data"
    /\ "incidents" \in DOMAIN tIn.answer.data
    /\ Len(tIn.answer.data.incidents) = 6
    /\ tIn.answer.data.incidents[1] = [properties |-> [magnitudeOfDelay |-> 3]]
    /\ tOut # NoOutcome
    /\ tOut.totalCount = 6
    /\ Len(tOut.incidents) = 5

(* C23: the chat route calls chat() only with a message that is a string,
   not empty once trimmed, of at most 1000 characters; for any other
   message, and for a conversationHistory that is given and is no array, it
   answers 400 with success false and chat() is not called. *)
C23_OnlyValidRequestsReachChat ==
    (body # NoBody /\ (res # NoOutcome \/ chatCall # NoOutcome))
        => IF /\ body.message.type = "string"
              /\ body.message.trimmed > 0
              /\ body.message.length <= 1000
              /\ body.conversationHistory.type \in {"undefined", "array"}
           THEN chatCall # NoOutcome /\ chatCall.message = body.message
           ELSE /\ chatCall = NoOutcome
                /\ res.status = 400
                /\ res.body.success = FALSE

(* C26: get_departure_times makes one route request per offset, for 0, 30,
   60 and 120 minutes in that order, each after the previous one was
   answered; a request that fails or yields no route is not repeated and the
   later ones are still made; the entries kept are those of the surviving
   offsets, in offset order. *)
C26_OneRequestPerOffset ==
    /\ dRequests = SubSeq(<<0, 30, 60, 120>>, 1, Len(dRequests))
    /\ (dpc = "await") => Len(dRequests) = Len(dAnswers) + 1
    /\ (dpc = "done" /\ dArgs # "undefined")
          => /\ dRequests = <<0, 30, 60, 120>>
             /\ Len(dAnswers) = 4
             /\ Len(results) = Cardinality(Surviving)
             /\ \A k \in 1..Len(results) :
                  \E i \in Surviving :
                     /\ results[k].label = Label(offsets[i])
                     /\ Cardinality({j \in Surviving : j < i}) = k - 1

\* The requests for 0 and 60 minutes failed, those for 30 and 120 minutes
\* yielded a route.
C26_Witness ==
    /\ Answered
    /\ dAnswers[1] = Failed /\ dAnswers[3] = Data([routes |-> <<>>])
    /\ Yields(dAnswers[2]) /\ Yields(dAnswers[4])
    /\ dRequests = <<0, 30, 60, 120>>
    /\ Len(results) = 2

(* C28: of the vibes of one userId no more than 20 are accepted within any
   24 hours, and two accepted vibes are never less than 30 seconds apart. *)
C28_VibeRateLimit ==
    /\ vWindowCount <= 20
    /\ (vPrev # NoTime) => vLast - vPrev >= 30

(* C29: however vote requests on an incident interleave, no counter is ever
   negative, no voter has two votes, and once every request has been
   answered confirmations is 1 plus the number of stored confirm votes and
   denials is the number of stored deny votes. *)
C29_TalliesMatchVotes ==
    /\ confirmations >= 0 /\ denials >= 0
    /\ \A v, w \in incidentVotes : v.voterIp = w.voterIp => v = w
    /\ (\A r \in DOMAIN voteReq : voteReq[r].pc \in {"done 200", "done 400", "done 500"})
          => /\ confirmations = 1 + Cardinality({v \in incidentVotes : v.voteType = "confirm"})
             /\ denials = Cardinality({v \in incidentVotes : v.voteType = "deny"})

(* C30: a getOrFetch call on a key whose entry was stored no more than its
   time to live ago returns the stored data with cached true and calls no
   fetchFn; on any other key it calls fetchFn once; when the fetch succeeds
   the data is stored for the time to live and returned with cached false;
   when it fails the call rejects with the fetch's error and the cache is
   left as it was, so that the next call fetches again. *)
C30_FetchOnlyOnMiss ==
    [][\A c \in DOMAIN fetchCalls :
         LET k == fetchCalls[c].key
             held == cacheData[k] # Undefined /\ clock <= cacheData[k].t
         IN  /\ (fetchCalls[c].pc = "idle" /\ fetchCalls'[c].pc # "idle"
                   /\ fetchCalls[c].cacheType = "traffic")
                  => IF held
                     THEN /\ fetchCalls'[c].settled =
                                 Resolved([data |-> cacheData[k].v, cached |-> TRUE])
                          /\ nFetch' = nFetch
                     ELSE /\ fetchCalls'[c].pc = "fetching"
                          /\ nFetch' = nFetch + 1
             /\ (fetchCalls[c].pc = "fetching" /\ fetchCalls'[c].pc = "done")
                  => IF fetchCalls'[c].settled.settled = "rejected"
                     THEN /\ fetchCalls'[c].settled.error = FETCH_ERROR
                          /\ cacheData' = cacheData
                     ELSE /\ fetchCalls'[c].settled.value.cached = FALSE
                          /\ cacheData'[k] = [v |-> fetchCalls'[c].settled.value.data,
                                              t |-> clock + 30]
                          /\ \A j \in CacheKeys \ {k} : cacheData'[j] = cacheData[j]]_vars

\* A call fetched and stored, a later call on the same key was served from
\* the cache, and a third one, made after the entry expired, fetched again.
C30_Witness ==
    /\ fetchCalls # <<>>
    /\ \A c \in DOMAIN fetchCalls :
          fetchCalls[c].pc = "done" /\ fetchCalls[c].key = "flow:25.2,55.3"
            /\ fetchCalls[c].cacheType = "traffic"
    /\ fetchCalls[1].settled = Resolved([data |-> [json |-> "A"], cached |-> FALSE])
    /\ fetchCalls[2].settled = Resolved([data |-> [json |-> "A"], cached |-> TRUE])
    /\ fetchCalls[3].settled = Resolved([data |-> [json |-> "B"], cached |-> FALSE])
    /\ nFetch = 2

====
